---- MODULE Spec2Model ----
(***************************************************************************)
(* Water Sort solver (WaterSort/code/ai_solution.py, class GameSolution).  *)
(*                                                                         *)
(* A configuration is a sequence of tubes, a tube a sequence of colours    *)
(* whose last element is the top.  Tube indices in moves are 0-based as in *)
(* the Python code; TLA+ sequences are 1-based, hence the "+ 1".           *)
(***************************************************************************)
EXTENDS Integers, Sequences, FiniteSets, TLC

\* ---- bounds of the model ------------------------------------------------
\* The size of an input is 2 * tubes + capacity + colours + units; Spec takes
\* every input of size at most MaxSize.
MaxSize == 14
\* The size of a puzzle is tubes + capacity + colours; SpecPuzzle takes every
\* puzzle of size at most PuzzleSize, SpecLarge those one size above.
PuzzleSize == 8

Colors == 1..MaxSize

VARIABLES
    NColorInTube,     \* game.NColorInTube, the capacity of every tube
    tube_colors,      \* the configuration the caller passes to the searches
    solution_found,   \* self.solution_found
    moves,            \* self.moves
    visited_states,   \* self.visited_states
    usage,            \* calls since __init__: "new" (none), "first", "later"
    pc,               \* "idle", "dfs" (inside solve), "astar" (inside optimal_solve)
    stack,            \* the activation records of dfs, innermost last
    priority_queue,   \* a_star_search: the heap, as the set of its entries
    visited,          \* a_star_search: visited
    g, h, f,          \* a_star_search: the three cost dictionaries
    cur,              \* a_star_search: the popped entry being expanded, or <<>>
    pushed,           \* a_star_search: the entries pushed so far, in push order
    ret,              \* what dfs / a_star_search returned in the last call
    freshResult       \* per method, what a call on a new solver left behind

vars == <<NColorInTube, tube_colors, solution_found, moves, visited_states,
          usage, pc, stack, priority_queue, visited, g, h, f, cur, pushed,
          ret, freshResult>>

\* ---- helpers ------------------------------------------------------------
Range(s) == {s[k] : k \in 1..Len(s)}

Top(tube) == tube[Len(tube)]

\* tuple(tuple(tube) for tube in colors): the hashable copy of a configuration
ToTuple(colors) ==
    [i \in 1..Len(colors) |-> [k \in 1..Len(colors[i]) |-> colors[i][k]]]

\* ---- State model ---------------------------------------------------------
\* game.check_victory: every tube empty or filled to capacity with one colour
check_victory(colors) ==
    \A i \in 1..Len(colors) :
        \/ Len(colors[i]) = 0
        \/ /\ Len(colors[i]) = NColorInTube
           /\ \A k \in 1..Len(colors[i]) : colors[i][k] = Top(colors[i])

is_victory(colors) == check_victory(colors)

\* variant: "<=" for "<" in the capacity test
CanPourLeq(colors, i, j) ==
    /\ i # j
    /\ \/ Len(colors[j + 1]) = 0
       \/ /\ Len(colors[j + 1]) <= NColorInTube
          /\ Top(colors[j + 1]) = Top(colors[i + 1])

\* variant: the test on the destination is missing
CanPourAny(colors, i, j) == i # j

\* variant: the capacity test is missing
CanPourNoCap(colors, i, j) ==
    /\ i # j
    /\ \/ Len(colors[j + 1]) = 0
       \/ Top(colors[j + 1]) = Top(colors[i + 1])

\* variant: an empty destination is not accepted
CanPourNoEmpty(colors, i, j) ==
    /\ i # j
    /\ Len(colors[j + 1]) > 0
    /\ Len(colors[j + 1]) < NColorInTube
    /\ Top(colors[j + 1]) = Top(colors[i + 1])

\* the test of line 38 for source i and destination j (0-based)
CanPour(colors, i, j) ==
    /\ i # j
    /\ \/ Len(colors[j + 1]) = 0
       \/ /\ Len(colors[j + 1]) < NColorInTube
          /\ Top(colors[j + 1]) = Top(colors[i + 1])

\* the two nested loops of get_possible_moves: i ascending, then j ascending
get_possible_moves(colors) ==
    LET n == Len(colors)
        all == [k \in 1..(n * n) |-> <<(k - 1) \div n, (k - 1) % n>>]
        Keep(m) == Len(colors[m[1] + 1]) > 0 /\ CanPour(colors, m[1], m[2])
    IN  SelectSeq(all, Keep)

\* variant: the colour is read from the source but not removed from it
make_move_no_pop(colors, move) ==
    LET src == move[1] + 1
        dst == move[2] + 1
        color == Top(colors[src])
    IN  [i \in 1..Len(colors) |->
            IF i = dst THEN Append(colors[i], color) ELSE colors[i]]

make_move(colors, move) ==
    LET src == move[1] + 1
        dst == move[2] + 1
        color == Top(colors[src])
    IN  [i \in 1..Len(colors) |->
            IF i = src /\ i = dst THEN colors[i]
            ELSE IF i = src THEN SubSeq(colors[i], 1, Len(colors[i]) - 1)
            ELSE IF i = dst THEN Append(colors[i], color)
            ELSE colors[i]]

heuristic(colors) ==
    LET misplaced_tubes ==
            Cardinality({i \in 1..Len(colors) :
                Len(colors[i]) > 0 /\ Cardinality(Range(colors[i])) > 1})
        incomplete_tubes ==
            Cardinality({i \in 1..Len(colors) :
                /\ Len(colors[i]) > 0
                /\ 0 < Cardinality(Range(colors[i]))
                /\ Cardinality(Range(colors[i])) < NColorInTube})
    IN  misplaced_tubes + incomplete_tubes

\* ---- order of heap entries ------------------------------------------------
\* Python compares lists and tuples lexicographically, a proper prefix first.
IntSeqLess(a, b) ==
    LET n == IF Len(a) < Len(b) THEN Len(a) ELSE Len(b)
        d == {k \in 1..n : a[k] # b[k]}
    IN  IF d = {} THEN Len(a) < Len(b)
        ELSE LET k == CHOOSE x \in d : \A y \in d : x <= y IN a[k] < b[k]

ListLess(a, b) ==
    LET n == IF Len(a) < Len(b) THEN Len(a) ELSE Len(b)
        d == {k \in 1..n : a[k] # b[k]}
    IN  IF d = {} THEN Len(a) < Len(b)
        ELSE LET k == CHOOSE x \in d : \A y \in d : x <= y
             IN  IntSeqLess(a[k], b[k])

\* (f, colors, path) < (f, colors, path) on the heap's 3-tuples
EntryLess(a, b) ==
    \/ a.f < b.f
    \/ /\ a.f = b.f
       /\ \/ ListLess(a.colors, b.colors)
          \/ a.colors = b.colors /\ ListLess(a.path, b.path)

\* variant: the largest entry is popped
heappop_max(queue) == CHOOSE e \in queue : \A o \in queue \ {e} : EntryLess(o, e)

\* the place of an entry in the order of the pushes
Position(e) == CHOOSE k \in 1..Len(pushed) : pushed[k] = e

\* variant: among the entries of least f the one pushed first is popped
heappop_fifo(queue) ==
    CHOOSE e \in queue : \A o \in queue \ {e} :
        \/ e.f < o.f
        \/ e.f = o.f /\ Position(e) < Position(o)

\* heapq.heappop: the smallest entry of the heap
heappop(queue) == CHOOSE e \in queue : \A o \in queue \ {e} : EntryLess(e, o)

\* variant: the move is not added to the path
ExtendPathLost(path, move) == path

\* variant: the move is added in front
ExtendPathFront(path, move) == <<move>> \o path

\* path + [move]
ExtendPath(path, move) == Append(path, move)

\* ---- the caller ----------------------------------------------------------
Methods == {"solve", "optimal_solve"}

NoResult == [done |-> FALSE, found |-> FALSE, moves |-> <<>>]

\* a call returns to the caller, who reads solution_found and moves
Return(method, r, found, path) ==
    /\ pc' = "idle"
    /\ ret' = r
    /\ freshResult' =
          IF usage = "first"
          THEN [freshResult EXCEPT ![method] =
                   [done |-> TRUE, found |-> found, moves |-> path]]
          ELSE freshResult

Used == IF usage = "new" THEN "first" ELSE "later"

AStarIdle ==
    /\ priority_queue' = {} /\ visited' = {} /\ cur' = <<>>
    /\ g' = <<>> /\ h' = <<>> /\ f' = <<>>
    /\ pushed' = <<>>

\* variant: visited_states is not created anew
construct_keep_visited ==
    /\ pc = "idle"
    /\ usage # "new"
    /\ solution_found' = FALSE
    /\ moves' = <<>>
    /\ usage' = "new"
    /\ ret' = "none"
    /\ UNCHANGED <<NColorInTube, tube_colors, visited_states, pc, stack,
                   priority_queue, visited, g, h, f, cur, pushed, freshResult>>

\* GameSolution.__init__
construct ==
    /\ pc = "idle"
    /\ usage # "new"
    /\ solution_found' = FALSE
    /\ moves' = <<>>
    /\ visited_states' = {}
    /\ usage' = "new"
    /\ ret' = "none"
    /\ UNCHANGED <<NColorInTube, tube_colors, pc, stack, priority_queue,
                   visited, g, h, f, cur, pushed, freshResult>>

\* ---- Exhaustive search: solve and its inner dfs ----------------------------
Frame(colors, path) ==
    [current_colors |-> colors, path |-> path, entered |-> FALSE, todo |-> <<>>]

\* lines 85-87: mark the initial state and call dfs(tube_colors, [])
solve ==
    /\ pc = "idle"
    /\ visited_states' = visited_states \cup {ToTuple(tube_colors)}
    /\ stack' = <<Frame(tube_colors, <<>>)>>
    /\ pc' = "dfs"
    /\ usage' = Used
    /\ ret' = "none"
    /\ UNCHANGED <<NColorInTube, tube_colors, solution_found, moves,
                   priority_queue, visited, g, h, f, cur, pushed, freshResult>>

\* lines 72-75, and the "return True" of line 82 in every caller
dfs_victory ==
    /\ pc = "dfs"
    /\ LET fr == stack[Len(stack)] IN
        /\ ~fr.entered
        /\ is_victory(fr.current_colors)
        /\ solution_found' = TRUE
        /\ moves' = fr.path
    /\ stack' = <<>>
    /\ Return("solve", "True", TRUE, stack[Len(stack)].path)
    /\ UNCHANGED <<NColorInTube, tube_colors, visited_states, usage,
                   priority_queue, visited, g, h, f, cur, pushed>>

\* variant: the moves are listed before the victory test
dfs_moves_first ==
    /\ pc = "dfs"
    /\ LET fr == stack[Len(stack)] IN
        /\ ~fr.entered
        /\ stack' = [stack EXCEPT ![Len(stack)] =
               [fr EXCEPT !.entered = TRUE,
                          !.todo = get_possible_moves(fr.current_colors)]]
    /\ UNCHANGED <<NColorInTube, tube_colors, solution_found, moves,
                   visited_states, usage, pc, priority_queue, visited, g, h, f,
                   cur, pushed, ret, freshResult>>

\* line 76: not victorious, the list of moves is computed
dfs_moves ==
    /\ pc = "dfs"
    /\ LET fr == stack[Len(stack)] IN
        /\ ~fr.entered
        /\ ~is_victory(fr.current_colors)
        /\ stack' = [stack EXCEPT ![Len(stack)] =
               [fr EXCEPT !.entered = TRUE,
                          !.todo = get_possible_moves(fr.current_colors)]]
    /\ UNCHANGED <<NColorInTube, tube_colors, solution_found, moves,
                   visited_states, usage, pc, priority_queue, visited, g, h, f,
                   cur, pushed, ret, freshResult>>

\* variant: the new configuration is not added to visited_states
dfs_try_unmarked ==
    /\ pc = "dfs"
    /\ LET fr == stack[Len(stack)] IN
        /\ fr.entered
        /\ fr.todo # <<>>
        /\ LET move == Head(fr.todo)
               next_colors == make_move(fr.current_colors, move)
               colors_tuple == ToTuple(next_colors)
               rest == [stack EXCEPT ![Len(stack)] =
                           [fr EXCEPT !.todo = Tail(fr.todo)]]
           IN  IF colors_tuple \notin visited_states
               THEN stack' = Append(rest,
                                Frame(next_colors, ExtendPath(fr.path, move)))
               ELSE stack' = rest
    /\ UNCHANGED <<NColorInTube, tube_colors, solution_found, moves,
                   visited_states, usage, pc, priority_queue, visited, g, h, f,
                   cur, pushed, ret, freshResult>>

\* lines 76-81: one iteration of the for loop
dfs_try ==
    /\ pc = "dfs"
    /\ LET fr == stack[Len(stack)] IN
        /\ fr.entered
        /\ fr.todo # <<>>
        /\ LET move == Head(fr.todo)
               next_colors == make_move(fr.current_colors, move)
               colors_tuple == ToTuple(next_colors)
               rest == [stack EXCEPT ![Len(stack)] =
                           [fr EXCEPT !.todo = Tail(fr.todo)]]
           IN  IF colors_tuple \notin visited_states
               THEN /\ visited_states' = visited_states \cup {colors_tuple}
                    /\ stack' = Append(rest,
                                   Frame(next_colors, ExtendPath(fr.path, move)))
               ELSE /\ visited_states' = visited_states
                    /\ stack' = rest
    /\ UNCHANGED <<NColorInTube, tube_colors, solution_found, moves, usage, pc,
                   priority_queue, visited, g, h, f, cur, pushed, ret,
                   freshResult>>

\* variant: "return dfs(...)" -- a failed branch ends the whole search
dfs_fail_all ==
    /\ pc = "dfs"
    /\ LET fr == stack[Len(stack)] IN fr.entered /\ fr.todo = <<>>
    /\ stack' = <<>>
    /\ Return("solve", "False", solution_found, moves)
    /\ UNCHANGED <<NColorInTube, tube_colors, solution_found, moves,
                   visited_states, usage, priority_queue, visited, g, h, f, cur,
                   pushed>>

\* line 83: the loop is over, dfs returns False to its caller
dfs_fail ==
    /\ pc = "dfs"
    /\ LET fr == stack[Len(stack)] IN fr.entered /\ fr.todo = <<>>
    /\ stack' = SubSeq(stack, 1, Len(stack) - 1)
    /\ IF Len(stack) = 1
       THEN Return("solve", "False", solution_found, moves)
       ELSE UNCHANGED <<pc, ret, freshResult>>
    /\ UNCHANGED <<NColorInTube, tube_colors, solution_found, moves,
                   visited_states, usage, priority_queue, visited, g, h, f, cur,
                   pushed>>

\* ---- Informed search: optimal_solve and its inner a_star_search ------------
Entry(fv, colors, path) == [f |-> fv, colors |-> colors, path |-> path]

\* lines 120-126
optimal_solve ==
    /\ pc = "idle"
    /\ LET initial_state == ToTuple(tube_colors)
           h0 == heuristic(tube_colors)
       IN  /\ g' = (initial_state :> 0)
           /\ h' = (initial_state :> h0)
           /\ f' = (initial_state :> 0 + h0)
           /\ priority_queue' = {Entry(0 + h0, tube_colors, <<>>)}
           /\ pushed' = <<Entry(0 + h0, tube_colors, <<>>)>>
           /\ visited' = {initial_state}
    /\ cur' = <<>>
    /\ pc' = "astar"
    /\ usage' = Used
    /\ ret' = "none"
    /\ UNCHANGED <<NColorInTube, tube_colors, solution_found, moves,
                   visited_states, stack, freshResult>>

\* lines 128-133: the popped entry is victorious
astar_victory ==
    /\ pc = "astar" /\ cur = <<>> /\ priority_queue # {}
    /\ LET e == heappop(priority_queue) IN
        /\ is_victory(e.colors)
        /\ solution_found' = TRUE
        /\ moves' = e.path
    /\ AStarIdle
    /\ Return("optimal_solve", "True", TRUE, heappop(priority_queue).path)
    /\ UNCHANGED <<NColorInTube, tube_colors, visited_states, usage, stack>>

\* variant: the smallest entry is read but stays in the heap
astar_pop_peek ==
    /\ pc = "astar" /\ cur = <<>> /\ priority_queue # {}
    /\ LET e == heappop(priority_queue) IN
        /\ ~is_victory(e.colors)
        /\ cur' = [current_colors |-> e.colors, path |-> e.path,
                   todo |-> get_possible_moves(e.colors)]
    /\ UNCHANGED <<NColorInTube, tube_colors, solution_found, moves,
                   visited_states, usage, pc, stack, priority_queue, visited,
                   g, h, f, pushed, ret, freshResult>>

\* lines 128-135: the popped entry is not victorious, its moves are listed
astar_pop ==
    /\ pc = "astar" /\ cur = <<>> /\ priority_queue # {}
    /\ LET e == heappop(priority_queue) IN
        /\ ~is_victory(e.colors)
        /\ priority_queue' = priority_queue \ {e}
        /\ cur' = [current_colors |-> e.colors, path |-> e.path,
                   todo |-> get_possible_moves(e.colors)]
    /\ UNCHANGED <<NColorInTube, tube_colors, solution_found, moves,
                   visited_states, usage, pc, stack, visited, g, h, f, pushed,
                   ret, freshResult>>

\* variant: a configuration found again by a shorter path gets the smaller g
\* and is pushed again
astar_try_reopen ==
    /\ pc = "astar" /\ cur # <<>> /\ cur.todo # <<>>
    /\ LET move == Head(cur.todo)
           next_colors == make_move(cur.current_colors, move)
           colors_tuple == ToTuple(next_colors)
           gn == g[ToTuple(cur.current_colors)] + 1
           hn == heuristic(next_colors)
       IN  IF colors_tuple \notin visited \/ gn < g[colors_tuple]
           THEN /\ visited' = visited \cup {colors_tuple}
                /\ g' = (colors_tuple :> gn) @@ g
                /\ h' = (colors_tuple :> hn) @@ h
                /\ f' = (colors_tuple :> gn + hn) @@ f
                /\ priority_queue' = priority_queue \cup
                       {Entry(gn + hn, next_colors, ExtendPath(cur.path, move))}
                /\ pushed' = Append(pushed,
                       Entry(gn + hn, next_colors, ExtendPath(cur.path, move)))
           ELSE UNCHANGED <<visited, g, h, f, priority_queue, pushed>>
    /\ cur' = [cur EXCEPT !.todo = Tail(cur.todo)]
    /\ UNCHANGED <<NColorInTube, tube_colors, solution_found, moves,
                   visited_states, usage, pc, stack, ret, freshResult>>

\* variant: the new configuration gets the g of the one it was reached from
astar_try_same_g ==
    /\ pc = "astar" /\ cur # <<>> /\ cur.todo # <<>>
    /\ LET move == Head(cur.todo)
           next_colors == make_move(cur.current_colors, move)
           colors_tuple == ToTuple(next_colors)
           gn == g[ToTuple(cur.current_colors)]
           hn == heuristic(next_colors)
       IN  IF colors_tuple \notin visited
           THEN /\ visited' = visited \cup {colors_tuple}
                /\ g' = (colors_tuple :> gn) @@ g
                /\ h' = (colors_tuple :> hn) @@ h
                /\ f' = (colors_tuple :> gn + hn) @@ f
                /\ priority_queue' = priority_queue \cup
                       {Entry(gn + hn, next_colors, ExtendPath(cur.path, move))}
                /\ pushed' = Append(pushed,
                       Entry(gn + hn, next_colors, ExtendPath(cur.path, move)))
           ELSE UNCHANGED <<visited, g, h, f, priority_queue, pushed>>
    /\ cur' = [cur EXCEPT !.todo = Tail(cur.todo)]
    /\ UNCHANGED <<NColorInTube, tube_colors, solution_found, moves,
                   visited_states, usage, pc, stack, ret, freshResult>>

\* lines 135-143: one iteration of the for loop
astar_try ==
    /\ pc = "astar" /\ cur # <<>> /\ cur.todo # <<>>
    /\ LET move == Head(cur.todo)
           next_colors == make_move(cur.current_colors, move)
           colors_tuple == ToTuple(next_colors)
           gn == g[ToTuple(cur.current_colors)] + 1
           hn == heuristic(next_colors)
       IN  IF colors_tuple \notin visited
           THEN /\ visited' = visited \cup {colors_tuple}
                /\ g' = (colors_tuple :> gn) @@ g
                /\ h' = (colors_tuple :> hn) @@ h
                /\ f' = (colors_tuple :> gn + hn) @@ f
                /\ priority_queue' = priority_queue \cup
                       {Entry(gn + hn, next_colors, ExtendPath(cur.path, move))}
                /\ pushed' = Append(pushed,
                       Entry(gn + hn, next_colors, ExtendPath(cur.path, move)))
           ELSE UNCHANGED <<visited, g, h, f, priority_queue, pushed>>
    /\ cur' = [cur EXCEPT !.todo = Tail(cur.todo)]
    /\ UNCHANGED <<NColorInTube, tube_colors, solution_found, moves,
                   visited_states, usage, pc, stack, ret, freshResult>>

\* the for loop is over: back to the while test of line 128
astar_loop ==
    /\ pc = "astar" /\ cur # <<>> /\ cur.todo = <<>>
    /\ cur' = <<>>
    /\ UNCHANGED <<NColorInTube, tube_colors, solution_found, moves,
                   visited_states, usage, pc, stack, priority_queue, visited,
                   g, h, f, pushed, ret, freshResult>>

\* line 144: the heap is empty
astar_fail ==
    /\ pc = "astar" /\ cur = <<>> /\ priority_queue = {}
    /\ AStarIdle
    /\ Return("optimal_solve", "False", solution_found, moves)
    /\ UNCHANGED <<NColorInTube, tube_colors, solution_found, moves,
                   visited_states, usage, stack>>

\* ---- initial states ------------------------------------------------------
RECURSIVE Count(_, _)
Count(colors, c) ==
    IF colors = <<>> THEN 0
    ELSE Cardinality({k \in 1..Len(Head(colors)) : Head(colors)[k] = c})
         + Count(Tail(colors), c)

\* the configurations of n tubes no longer than cap that hold at most u units
\* of the colours 1..k
RECURSIVE Configs(_, _, _, _)
Configs(n, cap, k, u) ==
    IF n = 0 THEN {<<>>}
    ELSE UNION {{<<t>> \o c : c \in Configs(n - 1, cap, k, u - Len(t))} :
                t \in UNION {[1..l -> 1..k] :
                             l \in 0..(IF cap < u THEN cap ELSE u)}}

SolverNew ==
    /\ solution_found = FALSE
    /\ moves = <<>>
    /\ visited_states = {}
    /\ usage = "new"
    /\ pc = "idle"
    /\ stack = <<>>
    /\ priority_queue = {} /\ visited = {} /\ cur = <<>>
    /\ g = <<>> /\ h = <<>> /\ f = <<>>
    /\ pushed = <<>>
    /\ ret = "none"
    /\ freshResult = [m \in Methods |-> NoResult]

\* every capacity and configuration of size at most MaxSize in which no tube
\* is longer than the capacity, handed to a new solver
Init ==
    /\ \E n \in 1..MaxSize, cap \in 1..MaxSize, k \in 1..MaxSize :
          /\ 2 * n + cap + k <= MaxSize
          /\ NColorInTube = cap
          /\ tube_colors \in Configs(n, cap, k, MaxSize - 2 * n - cap - k)
    /\ SolverNew

\* the configurations of n tubes no longer than cap that hold exactly rem[c]
\* units of every colour c
RECURSIVE Deals(_, _, _)
Deals(n, cap, rem) ==
    IF n = 0
    THEN IF \A c \in DOMAIN rem : rem[c] = 0 THEN {<<>>} ELSE {}
    ELSE UNION {{<<t>> \o d :
                    d \in Deals(n - 1, cap,
                                [c \in DOMAIN rem |-> rem[c] - Count(<<t>>, c)])} :
                t \in {x \in UNION {[1..l -> DOMAIN rem] : l \in 0..cap} :
                          \A c \in DOMAIN rem : Count(<<x>>, c) <= rem[c]}}

\* the puzzles of exactly the given size: n tubes of capacity cap that hold
\* exactly one tube's worth of each of the colours 1..k
Puzzle(size) ==
    /\ \E n \in 1..size, cap \in 1..size, k \in 1..size :
          /\ n + cap + k = size
          /\ k <= n
          /\ NColorInTube = cap
          /\ tube_colors \in Deals(n, cap, [c \in 1..k |-> cap])
    /\ SolverNew

InitPuzzle == \E size \in 3..PuzzleSize : Puzzle(size)

InitLarge == Puzzle(PuzzleSize + 1)

\* a caller that runs solve on one new solver and then optimal_solve on
\* another
Next ==
    \/ ~freshResult["optimal_solve"].done /\ construct
    \/ usage = "new" /\ ~freshResult["solve"].done /\ solve
    \/ dfs_victory
    \/ dfs_moves
    \/ dfs_try
    \/ dfs_fail
    \/ usage = "new" /\ freshResult["solve"].done /\ optimal_solve
    \/ astar_victory
    \/ astar_pop
    \/ astar_try
    \/ astar_loop
    \/ astar_fail

Spec == Init /\ [][Next]_vars

SpecPuzzle == InitPuzzle /\ [][Next]_vars

SpecLarge == InitLarge /\ [][Next]_vars

\* a call runs on without suspension until it returns: whenever a step of
\* dfs or of a_star_search is possible, one is taken
Running ==
    \/ dfs_victory
    \/ dfs_moves
    \/ dfs_try
    \/ dfs_fail
    \/ astar_victory
    \/ astar_pop
    \/ astar_try
    \/ astar_loop
    \/ astar_fail

\* as Init, for the inputs of size below MaxSize
InitLive ==
    /\ \E n \in 1..MaxSize, cap \in 1..MaxSize, k \in 1..MaxSize :
          /\ 2 * n + cap + k < MaxSize
          /\ NColorInTube = cap
          /\ tube_colors \in Configs(n, cap, k, MaxSize - 1 - 2 * n - cap - k)
    /\ SolverNew

SpecLive == InitLive /\ [][Next]_vars /\ WF_vars(Running)

\* a caller that constructs solvers and calls the two searches in any order,
\* also again on a solver already used
NextAny ==
    \/ construct
    \/ solve
    \/ dfs_victory
    \/ dfs_moves
    \/ dfs_try
    \/ dfs_fail
    \/ optimal_solve
    \/ astar_victory
    \/ astar_pop
    \/ astar_try
    \/ astar_loop
    \/ astar_fail

SpecAny == InitPuzzle /\ [][NextAny]_vars

\* a caller that runs the two searches any number of times, in any order, each
\* time on a new solver
NextFresh ==
    \/ construct
    \/ usage = "new" /\ solve
    \/ dfs_victory
    \/ dfs_moves
    \/ dfs_try
    \/ dfs_fail
    \/ usage = "new" /\ optimal_solve
    \/ astar_victory
    \/ astar_pop
    \/ astar_try
    \/ astar_loop
    \/ astar_fail

\* the puzzles of size below PuzzleSize
InitFresh == \E size \in 3..(PuzzleSize - 1) : Puzzle(size)

SpecFresh == InitFresh /\ [][NextFresh]_vars

\* ======================= properties =======================================
\* The rules of the game as the specification states them, written without
\* the solver's own operators.
Legal(colors, i, j) ==
    /\ i # j
    /\ Len(colors[i + 1]) > 0
    /\ \/ Len(colors[j + 1]) = 0
       \/ /\ Len(colors[j + 1]) < NColorInTube
          /\ colors[j + 1][Len(colors[j + 1])] = colors[i + 1][Len(colors[i + 1])]

Pour(colors, i, j) ==
    [k \in 1..Len(colors) |->
        IF k = i + 1 THEN SubSeq(colors[k], 1, Len(colors[k]) - 1)
        ELSE IF k = j + 1 THEN colors[k] \o <<colors[i + 1][Len(colors[i + 1])]>>
        ELSE colors[k]]

Victorious(colors) ==
    \A i \in 1..Len(colors) :
        Len(colors[i]) = 0
        \/ (Len(colors[i]) = NColorInTube /\ Cardinality(Range(colors[i])) = 1)

Successors(colors) ==
    {Pour(colors, i, j) : <<i, j>> \in
        {m \in (0..Len(colors) - 1) \X (0..Len(colors) - 1) :
            Legal(colors, m[1], m[2])}}

\* the configurations reachable from S in at most k legal moves
RECURSIVE Within(_, _)
Within(S, k) ==
    IF k <= 0 THEN S
    ELSE Within(S \cup UNION {Successors(c) : c \in S}, k - 1)

\* the configurations reachable by legal moves from those of seen, of which
\* only those of frontier may have successors outside seen
RECURSIVE Closure(_, _)
Closure(seen, frontier) ==
    LET new == UNION {Successors(c) : c \in frontier} \ seen
    IN  IF new = {} THEN seen ELSE Closure(seen \cup new, new)

Reachable == Closure({tube_colors}, {tube_colors})

Solvable == \E c \in Reachable : Victorious(c)

\* replaying a recorded path with the solver's make_move
RECURSIVE Replay(_, _)
Replay(colors, path) ==
    IF path = <<>> THEN colors
    ELSE Replay(make_move(colors, Head(path)), Tail(path))

RECURSIVE ReplayLegal(_, _)
ReplayLegal(colors, path) ==
    \/ path = <<>>
    \/ /\ Head(path) \in Range(get_possible_moves(colors))
       /\ ReplayLegal(make_move(colors, Head(path)), Tail(path))

AnyResult == freshResult["solve"]
OptResult == freshResult["optimal_solve"]

\* C1: when solve on a new solver reports a solution, replaying the recorded
\* moves from the initial configuration applies only moves that
\* get_possible_moves offers and ends in a victorious configuration.
C1_SolveSound ==
    (AnyResult.done /\ AnyResult.found) =>
        /\ ReplayLegal(tube_colors, AnyResult.moves)
        /\ Victorious(Replay(tube_colors, AnyResult.moves))

C1_Witness ==
    AnyResult.done /\ AnyResult.found /\ Len(AnyResult.moves) >= 3

\* C2: the path optimal_solve records on a new solver is a shortest solution:
\* no victorious configuration is reachable from the initial configuration in
\* fewer legal moves than the path has.
C2_OptimalShortest ==
    (pc = "idle" /\ OptResult.done /\ OptResult.found
        /\ Len(OptResult.moves) > 0) =>
        \A c \in Within({tube_colors}, Len(OptResult.moves) - 1) : ~Victorious(c)

\* C3: when optimal_solve on a new solver returns with a solution, the
\* recorded path is the path of the heap entry that was popped and found
\* victorious, its replay from the initial configuration applies only moves
\* get_possible_moves offers, and the replay ends in that entry's
\* configuration, which is victorious.
C3_OptimalSound ==
    [][(pc = "astar" /\ pc' = "idle" /\ usage = "first" /\ solution_found') =>
        LET e == heappop(priority_queue) IN
            /\ moves' = e.path
            /\ ReplayLegal(tube_colors, moves')
            /\ Replay(tube_colors, moves') = e.colors
            /\ Victorious(Replay(tube_colors, moves'))]_vars

C3_Witness ==
    OptResult.done /\ OptResult.found /\ Len(OptResult.moves) >= 3

\* C4: solve on a new solver ends without a solution only if no victorious
\* configuration is reachable from the initial one by legal moves.
C4_SolveComplete ==
    (pc = "idle" /\ AnyResult.done /\ ~AnyResult.found) => ~Solvable

\* a solution found after the search went into branches it had to leave again
C4_Witness ==
    /\ AnyResult.done /\ AnyResult.found
    /\ usage = "first" /\ ret = "True" /\ visited_states # {}
    /\ Cardinality(visited_states) > Len(AnyResult.moves) + 1

\* C5: optimal_solve on a new solver returns not-found only with an empty
\* heap, and only if no victorious configuration is reachable from the
\* initial one by legal moves.
C5_OptimalComplete ==
    [][(pc = "astar" /\ pc' = "idle" /\ usage = "first" /\ ~solution_found') =>
        (priority_queue = {} /\ ~Solvable)]_vars

C5_Witness ==
    /\ OptResult.done /\ ~OptResult.found
    /\ Cardinality(Reachable) >= 6

C7_Scenario ==
    /\ NColorInTube = 2
    /\ \E a, b \in Colors : a # b /\ tube_colors = <<<<a, b>>, <<b, a>>>>

\* C7 as stated: from [[A,B],[B,A]] with capacity 2, solve finds a solution
\* of 2 moves whose replay gives [[A,A],[B,B]] or [[B,B],[A,A]].
C7_TwoMoveSolution ==
    (C7_Scenario /\ AnyResult.done) =>
        /\ AnyResult.found
        /\ Len(AnyResult.moves) = 2
        /\ \E a, b \in Colors :
              a # b /\ Replay(tube_colors, AnyResult.moves) = <<<<a, a>>, <<b, b>>>>

\* C7 amended: from [[A,B],[B,A]] with capacity 2 no move is possible (both
\* tubes are full and their tops differ), so solve on a new solver ends
\* without a solution and with an empty move list.
C7_NoSolution ==
    (C7_Scenario /\ AnyResult.done) =>
        /\ get_possible_moves(tube_colors) = <<>>
        /\ ~AnyResult.found
        /\ AnyResult.moves = <<>>

C7_Witness == C7_Scenario /\ AnyResult.done /\ pc = "idle" /\ ret = "False"

\* C8: when the initial configuration is already victorious, a call of solve
\* or optimal_solve on a new solver lists and applies no move and returns
\* with solution_found set and an empty move list.
C8_AlreadySolved ==
    [][(Victorious(tube_colors) /\ usage' = "first") =>
        /\ ~(dfs_moves \/ dfs_try \/ astar_pop \/ astar_try)
        /\ (pc' = "idle" => solution_found' /\ moves' = <<>> /\ ret' = "True")]_vars

C8_Witness ==
    /\ Victorious(tube_colors)
    /\ \E i \in 1..Len(tube_colors) : Len(tube_colors[i]) > 0
    /\ \E i \in 1..Len(tube_colors) : Len(tube_colors[i]) = 0
    /\ AnyResult = [done |-> TRUE, found |-> TRUE, moves |-> <<>>]
    /\ OptResult = [done |-> TRUE, found |-> TRUE, moves |-> <<>>]

\* the configuration a search is working on: the one of the innermost dfs
\* call, or the one popped from the heap
Current ==
    (IF stack # <<>> THEN {stack[Len(stack)].current_colors} ELSE {})
    \cup (IF cur # <<>> THEN {cur.current_colors} ELSE {})

\* the number of units in a configuration
RECURSIVE SumLen(_)
SumLen(colors) ==
    IF colors = <<>> THEN 0 ELSE Len(Head(colors)) + SumLen(Tail(colors))

\* the colours that occur in a configuration
ColorsOf(colors) == UNION {Range(colors[i]) : i \in 1..Len(colors)}

\* C9: every configuration a search works on has the per-colour counts of the
\* initial configuration, and every move get_possible_moves offers on it is
\* applied by make_move as the transfer of exactly the top unit of the source
\* to the top of the destination, all other tubes, every colour count and the
\* total staying the same.
C9_UnitsConserved ==
    \A c \in Current :
        /\ \A col \in ColorsOf(c) \cup ColorsOf(tube_colors) :
              Count(c, col) = Count(tube_colors, col)
        /\ \A k \in 1..Len(get_possible_moves(c)) :
              LET m == get_possible_moves(c)[k]
                  d == make_move(c, m)
                  src == m[1] + 1
                  dst == m[2] + 1
              IN  /\ Len(d) = Len(c)
                  /\ SumLen(d) = SumLen(c)
                  /\ \A col \in ColorsOf(c) \cup ColorsOf(d) :
                        Count(d, col) = Count(c, col)
                  /\ d[src] \o <<c[src][Len(c[src])]>> = c[src]
                  /\ d[dst] = c[dst] \o <<c[src][Len(c[src])]>>
                  /\ \A i \in 1..Len(c) : i \notin {src, dst} => d[i] = c[i]

C9_Witness ==
    \E c \in Current :
        /\ c # tube_colors
        /\ Len(get_possible_moves(c)) >= 2
        /\ Cardinality(ColorsOf(c)) >= 2

\* C10: on every configuration a search works on, get_possible_moves returns
\* exactly the legal moves, each once: (i, j) is returned iff i # j, tube i
\* is non-empty, and tube j is empty or is below capacity with the top colour
\* of tube i.
C10_ExactlyLegalMoves ==
    \A c \in Current \cup {tube_colors} :
        LET ms == get_possible_moves(c)
            idx == 0..(Len(c) - 1)
        IN  /\ \A k \in 1..Len(ms) : ms[k] \in idx \X idx
            /\ \A i, j \in idx : (<<i, j>> \in Range(ms)) <=> Legal(c, i, j)
            /\ Cardinality(Range(ms)) = Len(ms)

\* a full tube whose top has the colour of another tube's top, next to a
\* legal move
C10_Witness ==
    \E c \in Current :
        /\ get_possible_moves(c) # <<>>
        /\ \E i, j \in 1..Len(c) :
              /\ i # j /\ Len(c[i]) > 0
              /\ Len(c[j]) = NColorInTube
              /\ c[j][Len(c[j])] = c[i][Len(c[i])]
        /\ \E i, j \in 1..Len(c) :
              /\ i # j /\ Len(c[i]) > 0 /\ Len(c[j]) > 0
              /\ Len(c[j]) < NColorInTube
              /\ c[j][Len(c[j])] # c[i][Len(c[i])]

\* every configuration a search holds: in the frames of dfs, in
\* visited_states, in the heap, in visited, and the one being expanded
Held ==
    {stack[k].current_colors : k \in 1..Len(stack)}
    \cup visited_states
    \cup {e.colors : e \in priority_queue}
    \cup visited
    \cup (IF cur # <<>> THEN {cur.current_colors} ELSE {})

\* every configuration a search generates from the one it is working on
Generated ==
    UNION {{make_move(c, get_possible_moves(c)[k]) :
               k \in 1..Len(get_possible_moves(c))} : c \in Current}

\* C11: no tube of the initial configuration is longer than the capacity, and
\* no tube of any configuration that a search generates, marks visited, pushes
\* on the heap or recurses into is longer than the capacity.
C11_CapacityKept ==
    [](/\ NColorInTube >= 1
       /\ \A c \in {tube_colors} \cup Held \cup Generated :
             \A i \in 1..Len(c) : Len(c[i]) <= NColorInTube)

\* a search works on a configuration with a tube that a pour has filled, while
\* another tube shows the same colour on top
C11_Witness ==
    \E c \in Current :
        \E i, j \in 1..Len(c) :
            /\ i # j
            /\ Len(c[i]) > 0
            /\ Len(c[j]) = NColorInTube
            /\ Len(tube_colors[j]) < NColorInTube
            /\ c[j][Len(c[j])] = c[i][Len(c[i])]

\* C12: when solve is invoked, the configurations that count as visited are
\* only those of this invocation: at its start the visited set holds the
\* initial configuration and nothing from an earlier call on the same solver.
C12_OwnVisitedSet ==
    [][(pc = "idle" /\ pc' = "dfs") =>
          visited_states' = {ToTuple(tube_colors)}]_vars

\* C13: after any sequence of solve and optimal_solve calls on one solver,
\* when the most recent call has ended without reaching a victorious
\* configuration, solution_found is false and moves holds no path of an
\* earlier call.
C13_NotFoundReported ==
    (pc = "idle" /\ ret = "False") => (~solution_found /\ moves = <<>>)

RECURSIVE TubeBefore(_, _)
TubeBefore(a, b) ==
    IF a = <<>> THEN b # <<>>
    ELSE IF b = <<>> THEN FALSE
    ELSE IF Head(a) # Head(b) THEN Head(a) < Head(b)
    ELSE TubeBefore(Tail(a), Tail(b))

RECURSIVE ConfigBefore(_, _)
ConfigBefore(a, b) ==
    IF a = <<>> THEN b # <<>>
    ELSE IF b = <<>> THEN FALSE
    ELSE IF Head(a) # Head(b) THEN TubeBefore(Head(a), Head(b))
    ELSE ConfigBefore(Tail(a), Tail(b))

\* a_star_search is at line 129 with a non-empty heap
PopDue == pc = "astar" /\ cur = <<>> /\ priority_queue # {}

C16_VisitedBeforeRecursion ==
    [][(usage' = "first" /\ pc' = "dfs") =>
          /\ pc = "dfs" => visited_states \subseteq visited_states'
          /\ Len(stack') > Len(stack) =>
                /\ ToTuple(stack'[Len(stack')].current_colors)
                      \notin visited_states
                /\ ToTuple(stack'[Len(stack')].current_colors)
                      \in visited_states'
          /\ \A k \in 1..Len(stack') :
                /\ ToTuple(stack'[k].current_colors) \in visited_states'
                /\ \A l \in 1..Len(stack') :
                      stack'[k].current_colors = stack'[l].current_colors
                          => k = l]_vars

\* dfs is about to reach again a configuration it entered in a branch it has
\* left
C16_Witness ==
    /\ pc = "dfs" /\ usage = "first" /\ Len(stack) >= 2
    /\ stack[Len(stack)].entered
    /\ stack[Len(stack)].todo # <<>>
    /\ LET fr == stack[Len(stack)]
           c == ToTuple(make_move(fr.current_colors, Head(fr.todo)))
       IN  /\ c \in visited_states
           /\ \A k \in 1..Len(stack) : ToTuple(stack[k].current_colors) # c

\* C17: in a run of optimal_solve a configuration is marked visited, given
\* its g, h and f and pushed once, when it is first found: exactly the visited
\* configurations have g, h and f, exactly they were pushed, each once; a step
\* changes no g, h or f that is set, pushes only a configuration that was not
\* visited, and puts no popped entry back, so finding a configuration again,
\* also by a path with fewer moves, changes nothing and no configuration is
\* popped twice.
C17_CostsAssignedOnce ==
    [][(pc = "astar" /\ pc' = "astar") =>
          /\ DOMAIN g' = visited' /\ DOMAIN h' = visited' /\ DOMAIN f' = visited'
          /\ {ToTuple(pushed'[k].colors) : k \in 1..Len(pushed')} = visited'
          /\ Len(pushed') = Cardinality(visited')
          /\ visited \subseteq visited'
          /\ \A c \in visited : g'[c] = g[c] /\ h'[c] = h[c] /\ f'[c] = f[c]
          /\ SubSeq(pushed', 1, Len(pushed)) = pushed
          /\ Len(pushed') <= Len(pushed) + 1
          /\ priority_queue' \ priority_queue
                = {pushed'[k] : k \in (Len(pushed) + 1)..Len(pushed')}
          /\ \A e \in priority_queue' \ priority_queue :
                ToTuple(e.colors) \notin visited
          /\ (cur' # <<>> /\ cur = <<>>) =>
                /\ priority_queue \ priority_queue' = {heappop(priority_queue)}
                /\ cur'.current_colors = heappop(priority_queue).colors
          /\ (cur # <<>>) => priority_queue \subseteq priority_queue']_vars

\* optimal_solve is about to find again, by a path with fewer moves, a
\* configuration that has its g, h and f
C17_Witness ==
    /\ pc = "astar" /\ cur # <<>>
    /\ cur.todo # <<>>
    /\ LET c == ToTuple(make_move(cur.current_colors, Head(cur.todo)))
       IN  /\ c \in visited
           /\ g[ToTuple(cur.current_colors)] + 1 < g[c]

\* replaying a path by the rules of the game: every move legal where it is
\* made, the result the given configuration
RECURSIVE LeadsTo(_, _, _)
LeadsTo(colors, path, target) ==
    IF path = <<>> THEN colors = target
    ELSE /\ Head(path) \in (0..Len(colors) - 1) \X (0..Len(colors) - 1)
         /\ Legal(colors, Head(path)[1], Head(path)[2])
         /\ LeadsTo(Pour(colors, Head(path)[1], Head(path)[2]), Tail(path),
                    target)

\* C18: in optimal_solve every heap entry (f, configuration, path) has
\* g(configuration) = len(path) and f = g(configuration) +
\* heuristic(configuration), and its path, replayed from the initial
\* configuration, makes only legal moves and gives its configuration; the
\* first entry pushed is the initial configuration with g = 0 and the empty
\* path.
C18_FrontierInvariant ==
    [](pc = "astar" =>
        /\ \A e \in priority_queue :
              /\ g[ToTuple(e.colors)] = Len(e.path)
              /\ h[ToTuple(e.colors)] = heuristic(e.colors)
              /\ f[ToTuple(e.colors)] = e.f
              /\ e.f = g[ToTuple(e.colors)] + heuristic(e.colors)
              /\ LeadsTo(tube_colors, e.path, e.colors)
        /\ pushed[1].colors = tube_colors
        /\ pushed[1].path = <<>>
        /\ pushed[1].f = heuristic(tube_colors)
        /\ g[ToTuple(tube_colors)] = 0)

\* a heap of at least three entries, one of them three moves or more from the
\* initial configuration
C18_Witness ==
    /\ pc = "astar"
    /\ Cardinality(priority_queue) >= 3
    /\ \E e \in priority_queue : Len(e.path) >= 3 /\ e.f > Len(e.path)

\* C19: every call of solve and every call of optimal_solve returns.
C19_Terminates == (pc # "idle") ~> (pc = "idle")

\* solve has returned without a solution after it explored six configurations
\* or more, among them two that a pour and the pour back lead between
C19_Witness ==
    /\ pc = "idle" /\ ret = "False" /\ usage = "first"
    /\ AnyResult.done /\ ~OptResult.done
    /\ Cardinality(visited_states) >= 6
    /\ \E c \in visited_states :
          \E s \in Successors(c) : s \in visited_states /\ c \in Successors(s)

\* C20: the h that optimal_solve stores for a configuration is the number of
\* its tubes that hold more than one colour plus the number of its non-empty
\* tubes that are not filled to capacity with one colour; so it is 0 for a
\* victorious configuration.
C20_HeuristicTerms ==
    pc = "astar" =>
        \A c \in visited :
            /\ h[c] = Cardinality({i \in 1..Len(c) :
                          Cardinality(Range(c[i])) > 1})
                    + Cardinality({i \in 1..Len(c) :
                          /\ Len(c[i]) > 0
                          /\ ~(/\ Len(c[i]) = NColorInTube
                               /\ Cardinality(Range(c[i])) = 1)})
            /\ Victorious(c) => h[c] = 0

====
